---- MODULE Spec2Model ----
(***************************************************************************)
(* A model of scripts/build_ai_index.mjs: the per-file inlining decision   *)
(* of writePack and of writeEverythingSharded, the greedy shard loop, and  *)
(* the sequence of components that ends with the pack catalog, and the     *)
(* gathering of the file list from git or from the working directory.      *)
(*                                                                         *)
(* Paths are sequences of tokens: "/" and "." are tokens of their own, and *)
(* no other token holds either character, so that the string operations of *)
(* the source (split("."), startsWith, the suffix regexes, toLowerCase)    *)
(* act on tokens as they act on characters.                                *)
(*                                                                         *)
(* File contents are run-length encoded: a Buffer is a sequence of runs    *)
(* [k, n], k = "a" for n ASCII bytes, "m" for n two-byte UTF-8 characters  *)
(* (2n bytes) and "x" for n bytes that are no valid UTF-8 (each decodes to *)
(* U+FFFD).  This keeps the byte thresholds at their source values.        *)
(***************************************************************************)
EXTENDS Integers, Sequences, FiniteSets, TLC

VARIABLES
  files,         \* the file list (line 83): records [path, size, blob, tree]
  pc,            \* the component of the script that runs next
  docs,          \* the artifacts written under docs/: name -> content
  PACK_CATALOG,  \* line 198
  subset,        \* writeEverythingSharded: the filtered list (line 312)
  pos,           \* writeEverythingSharded: files of subset already looped over
  items,         \* writeEverythingSharded: the shard in progress (line 317)
  bytes,         \* writeEverythingSharded: its embedded-content counter
  shardIdx,      \* writeEverythingSharded: number of the next shard
  shards,        \* writeEverythingSharded: the shards flushed so far
  repo,          \* SpecWalk: what git ls-tree prints, and the working directory
  probe,         \* SpecItem: the file handed to both loop bodies
  packItem,      \* SpecItem: the item writePack's loop body built
  shardItem      \* SpecItem: the item writeEverythingSharded's loop body built

vars == <<files, pc, docs, PACK_CATALOG, subset, pos, items, bytes, shardIdx,
          shards, repo, probe, packItem, shardItem>>

----------------------------------------------------------------------------
(* Strings of path tokens *)

Max(S) == CHOOSE x \in S : \A y \in S : y <= x
Min(a, b) == IF a <= b THEN a ELSE b

\* String.prototype.toLowerCase, per token
Lower(t) ==
  CASE t = "Docs" -> "docs"
    [] t = "Data" -> "data"
    [] t = "MD" -> "md"
    [] t = "JSON" -> "json"
    [] t = "YAML" -> "yaml"
    [] t = "README" -> "readme"
    [] t = "LICENSE" -> "license"
    [] OTHER -> t

toLowerCase(p) == [i \in 1..Len(p) |-> Lower(p[i])]

startsWith(p, q) == Len(q) <= Len(p) /\ SubSeq(p, 1, Len(q)) = q

\* p.split(".").pop(): what follows the last "." (the whole string without one)
splitDotPop(p) ==
  LET d == {i \in 1..Len(p) : p[i] = "."}
  IN  IF d = {} THEN p ELSE SubSeq(p, Max(d) + 1, Len(p))

\* /\.(e1|e2|...)$/i.test(p)
testDotExt(p, exts) ==
  /\ Len(p) >= 2
  /\ p[Len(p) - 1] = "."
  /\ Lower(p[Len(p)]) \in exts

\* line 31: p.toLowerCase().split(".").pop(), looked up in the table of 32-38
mediaTypeFor(p) ==
  LET ext == splitDotPop(toLowerCase(p))
  IN  CASE ext \in {<<"json">>, <<"schema">>} -> "application/json"
        [] ext \in {<<"js">>, <<"mjs">>} -> "application/javascript"
        [] ext = <<"css">> -> "text/css"
        [] ext = <<"html">> -> "text/html"
        [] ext \in {<<"md">>, <<"mdx">>} -> "text/markdown"
        [] ext = <<"txt">> -> "text/plain"
        [] ext = <<"svg">> -> "image/svg+xml"
        [] ext = <<"png">> -> "image/png"
        [] ext \in {<<"jpg">>, <<"jpeg">>} -> "image/jpeg"
        [] ext = <<"webp">> -> "image/webp"
        [] ext = <<"ico">> -> "image/x-icon"
        [] ext = <<"pdf">> -> "application/pdf"
        [] ext = <<"xml">> -> "application/xml"
        [] ext \in {<<"yml">>, <<"yaml">>} -> "text/yaml"
        [] OTHER -> "application/octet-stream"

TEXT_EXT ==
  {<<"md">>, <<"mdx">>, <<"json">>, <<"js">>, <<"mjs">>, <<"css">>,
   <<"html">>, <<"yml">>, <<"yaml">>, <<"txt">>, <<"svg">>}

INLINE_TEXT_BYTES == 600 * 1024
INLINE_BIN_BYTES == 200 * 1024
PREVIEW_TEXT_BYTES == 64 * 1024

ALWAYS_TEXT_FULL_PATHS ==
  {<<"dog-gifts", ".", "json">>, <<"dog-gifts", ".", "schema", ".", "json">>}

\* lines 161, 167-170: the exact paths, or /^docs\//i
alwaysFullText(p) ==
  \/ p \in ALWAYS_TEXT_FULL_PATHS
  \/ (Len(p) >= 2 /\ Lower(p[1]) = "docs" /\ p[2] = "/")

\* line 204: (f.path.split(".").pop()||"").toLowerCase()
extOf(p) == toLowerCase(splitDotPop(p))

\* /^text\//.test(m)
isTextMedia(m) == m \in {"text/css", "text/html", "text/markdown", "text/plain", "text/yaml"}

isTextPath(p) == extOf(p) \in TEXT_EXT \/ isTextMedia(mediaTypeFor(p))

----------------------------------------------------------------------------
(* Buffers and JavaScript strings *)

\* buf.length
ByteLen(buf) ==
  LET F[i \in 0..Len(buf)] ==
        IF i = 0 THEN 0
        ELSE F[i - 1] + (IF buf[i].k = "m" THEN 2 * buf[i].n ELSE buf[i].n)
  IN  F[Len(buf)]

\* Appends a run, merging it into a last run of the same kind
AddRun(s, k, n) ==
  IF n = 0 THEN s
  ELSE IF s # <<>> /\ s[Len(s)].k = k
       THEN [s EXCEPT ![Len(s)].n = @ + n]
       ELSE Append(s, [k |-> k, n |-> n])

\* buf.slice(0, limit): the first limit bytes.  A cut inside a two-byte
\* character leaves its lead byte alone, which is no valid UTF-8.
slice(buf, limit) ==
  LET F[i \in 0..Len(buf)] ==
        IF i = 0 THEN [out |-> <<>>, left |-> limit]
        ELSE LET prev == F[i - 1]
                 r == buf[i]
                 w == IF r.k = "m" THEN 2 ELSE 1
                 take == Min(r.n * w, prev.left)
             IN  [out |-> AddRun(AddRun(prev.out, r.k, take \div w),
                                 "x", take % w),
                  left |-> prev.left - take]
  IN  F[Len(buf)].out

\* The characters of buf.toString("utf8"): "a" ASCII, "e" a two-byte
\* character, "r" U+FFFD for every byte that is no valid UTF-8.
utf8Decode(buf) ==
  LET F[i \in 0..Len(buf)] ==
        IF i = 0 THEN <<>>
        ELSE AddRun(F[i - 1],
                    CASE buf[i].k = "a" -> "a" [] buf[i].k = "m" -> "e" [] OTHER -> "r",
                    buf[i].n)
  IN  F[Len(buf)]

CharLen(runs) ==
  LET F[i \in 0..Len(runs)] == IF i = 0 THEN 0 ELSE F[i - 1] + runs[i].n
  IN  F[Len(runs)]

\* buffer.constants.MAX_STRING_LENGTH of the runtime: a longer string cannot
\* be created, and toString throws
MAX_STRING_LENGTH == 536870888

Undefined == [kind |-> "undefined", of |-> <<>>]

\* A JavaScript string value: the text decoded from a buffer, or its base64
utf8String(buf) == [kind |-> "text", of |-> utf8Decode(buf)]
base64String(buf) == [kind |-> "base64", of |-> buf]

\* content.length
StrLen(s) ==
  CASE s.kind = "text" -> CharLen(s.of)
    [] s.kind = "base64" -> 4 * ((ByteLen(s.of) + 2) \div 3)
    [] OTHER -> 0

\* sha256(buf): one digest per content
sha256(buf) == [kind |-> "sha256", of |-> buf]

----------------------------------------------------------------------------
(* Reading a file *)

\* What a read yields: it throws (ok = FALSE), or it returns the bytes buf;
\* json is what JSON.parse makes of those bytes as text: "malformed", or the
\* type of the value with n, its element or key count
Throws == [ok |-> FALSE, buf |-> <<>>, json |-> [type |-> "malformed", n |-> 0]]

\* gitShow with a second catch that returns an empty buffer
gitShowNeverThrows(f) ==
  IF f.blob.ok THEN f.blob
  ELSE IF f.tree.ok THEN f.tree
  ELSE [ok |-> TRUE, buf |-> <<>>, json |-> [type |-> "malformed", n |-> 0]]

\* lines 174-177: the blob of the commit, else the working-tree file; a file
\* record's blob and tree fields are what the two reads yield in this run
gitShow(f) == IF f.blob.ok THEN f.blob ELSE f.tree

\* buf.toString(enc) throws when the string would be too long
toStringThrows(s) == StrLen(s) > MAX_STRING_LENGTH

NoHint == [type |-> "absent", length |-> 0, sample |-> 0, keys |-> 0]
UndefinedHint == [type |-> "undefined", length |-> 0, sample |-> 0, keys |-> 0]

\* lines 180-195; sample and keys are the numbers of elements and keys kept
jsonShapeHint(r) ==
  IF toStringThrows(utf8String(r.buf)) \/ r.json.type = "malformed"
  THEN UndefinedHint
  ELSE CASE r.json.type = "array" ->
              [type |-> "array", length |-> r.json.n, sample |-> Min(3, r.json.n), keys |-> 0]
         [] r.json.type = "object" ->
              [type |-> "object", length |-> 0, sample |-> 0, keys |-> Min(r.json.n, 12)]
         [] OTHER ->
              [type |-> r.json.type, length |-> 0, sample |-> 0, keys |-> 0]

----------------------------------------------------------------------------
(* The per-file decision *)

\* The locals of a loop body as declared on lines 208-209 and 340; added is
\* what the body adds to the shard's bytes counter
Locals ==
  [inline_state |-> "none", encoding |-> "undefined", content |-> Undefined,
   content_sha |-> Undefined, meta |-> NoHint, added |-> 0]

\* packFull with the content cut to the preview budget
packFullCut(buf) ==
  [Locals EXCEPT !.inline_state = "full", !.encoding = "utf8",
                 !.content = utf8String(slice(buf, PREVIEW_TEXT_BYTES)),
                 !.content_sha = sha256(buf)]

\* lines 215-216
packFull(buf) ==
  IF toStringThrows(utf8String(buf))
  THEN [Locals EXCEPT !.inline_state = "full", !.encoding = "utf8"]
  ELSE [Locals EXCEPT !.inline_state = "full", !.encoding = "utf8",
                      !.content = utf8String(buf),
                      !.content_sha = sha256(buf)]

\* packPreview with the hash taken of the slice that is embedded
packPreviewHashesSlice(r, ext) ==
  [Locals EXCEPT !.inline_state = "preview", !.encoding = "utf8",
                 !.content = utf8String(slice(r.buf, PREVIEW_TEXT_BYTES)),
                 !.content_sha = sha256(slice(r.buf, PREVIEW_TEXT_BYTES)),
                 !.meta = IF ext = <<"json">> THEN jsonShapeHint(r) ELSE NoHint]

\* lines 218-220
packPreview(r, ext) ==
  [Locals EXCEPT !.inline_state = "preview", !.encoding = "utf8",
                 !.content = utf8String(slice(r.buf, PREVIEW_TEXT_BYTES)),
                 !.content_sha = sha256(r.buf),
                 !.meta = IF ext = <<"json">> THEN jsonShapeHint(r) ELSE NoHint]

\* lines 223-224
packBinary(buf) ==
  IF toStringThrows(base64String(buf))
  THEN [Locals EXCEPT !.inline_state = "full", !.encoding = "base64"]
  ELSE [Locals EXCEPT !.inline_state = "full", !.encoding = "base64",
                      !.content = base64String(buf),
                      !.content_sha = sha256(buf)]

\* packDecide with < for <= in the test of the binary cap
packDecideStrictCap(f) ==
  LET ext == extOf(f.path)
      isText == ext \in TEXT_EXT
      mustFull == isText /\ alwaysFullText(f.path)
      r == gitShow(f)
  IN  IF ~r.ok THEN Locals
      ELSE IF isText
      THEN IF mustFull \/ f.size <= INLINE_TEXT_BYTES THEN packFull(r.buf)
           ELSE IF PREVIEW_TEXT_BYTES > 0 THEN packPreview(r, ext)
           ELSE Locals
      ELSE IF f.size < INLINE_BIN_BYTES THEN packBinary(r.buf)
      ELSE Locals

\* lines 204-226: writePack's classification and try block.  An assignment
\* made before a throw stays: inline_state and encoding are set before
\* toString is called.
packDecide(f) ==
  LET ext == extOf(f.path)
      isText == ext \in TEXT_EXT
      mustFull == isText /\ alwaysFullText(f.path)
      r == gitShow(f)
  IN  IF ~r.ok THEN Locals
      ELSE IF isText
      THEN IF mustFull \/ f.size <= INLINE_TEXT_BYTES THEN packFull(r.buf)
           ELSE IF PREVIEW_TEXT_BYTES > 0 THEN packPreview(r, ext)
           ELSE Locals
      ELSE IF f.size <= INLINE_BIN_BYTES THEN packBinary(r.buf)
      ELSE Locals

\* lines 346-347
shardFull(buf) ==
  IF toStringThrows(utf8String(buf))
  THEN [Locals EXCEPT !.inline_state = "full", !.encoding = "utf8"]
  ELSE [Locals EXCEPT !.inline_state = "full", !.encoding = "utf8",
                      !.content = utf8String(buf),
                      !.content_sha = sha256(buf),
                      !.added = StrLen(utf8String(buf))]

\* lines 349-351
shardPreview(r, path) ==
  LET c == utf8String(slice(r.buf, PREVIEW_TEXT_BYTES))
  IN  [Locals EXCEPT !.inline_state = "preview", !.encoding = "utf8",
                     !.content = c,
                     !.content_sha = sha256(r.buf),
                     !.added = StrLen(c),
                     !.meta = IF testDotExt(path, {"json"})
                              THEN jsonShapeHint(r) ELSE NoHint]

\* lines 354-355
shardBinary(buf) ==
  IF toStringThrows(base64String(buf))
  THEN [Locals EXCEPT !.inline_state = "full", !.encoding = "base64"]
  ELSE [Locals EXCEPT !.inline_state = "full", !.encoding = "base64",
                      !.content = base64String(buf),
                      !.content_sha = sha256(buf),
                      !.added = StrLen(base64String(buf))]

\* lines 342-357: writeEverythingSharded's try block
shardDecide(f) ==
  LET r == gitShow(f)
  IN  IF ~r.ok THEN Locals
      ELSE IF isTextPath(f.path)
      THEN IF alwaysFullText(f.path) \/ f.size <= INLINE_TEXT_BYTES THEN shardFull(r.buf)
           ELSE IF PREVIEW_TEXT_BYTES > 0 THEN shardPreview(r, f.path)
           ELSE Locals
      ELSE IF f.size <= INLINE_BIN_BYTES THEN shardBinary(r.buf)
      ELSE Locals

\* An item without the fields of lines 241-245
MetadataOnly(f, state) ==
  [path |-> f.path, size |-> f.size, inline_state |-> state,
   encoding |-> "undefined", content |-> Undefined, inline_bytes |-> -1,
   content_sha256 |-> Undefined, json_hint |-> NoHint]

\* lines 228-246: the item of writePack.  A field that was not assigned, or
\* was assigned undefined, is not in the JSON that is written: its value
\* here is Undefined ("undefined" for encoding, UndefinedHint or NoHint for
\* json_hint, -1 for inline_bytes).  The fields copied from the file record
\* besides path and size (sha, media_type, the URLs) and the three limits
\* are left out.
packItemOf(f) ==
  LET d == packDecide(f)
  IN  IF d.inline_state # "none"
      THEN [MetadataOnly(f, d.inline_state) EXCEPT
              !.encoding = d.encoding,
              !.content = d.content,
              !.inline_bytes = IF d.content # Undefined THEN StrLen(d.content) ELSE 0,
              !.content_sha256 = d.content_sha,
              !.json_hint = d.meta]
      ELSE MetadataOnly(f, "none")

\* lines 359-377: the item of writeEverythingSharded
shardItemOf(f) ==
  LET d == shardDecide(f)
  IN  IF d.inline_state # "none"
      THEN [MetadataOnly(f, d.inline_state) EXCEPT
              !.encoding = d.encoding,
              !.content = d.content,
              !.inline_bytes = IF d.content # Undefined THEN StrLen(d.content) ELSE 0,
              !.content_sha256 = d.content_sha,
              !.json_hint = d.meta]
      ELSE MetadataOnly(f, "none")

----------------------------------------------------------------------------
(* The inputs: paths, sizes and contents *)

Run(k, n) == [k |-> k, n |-> n]
Content(buf, type, n) == [ok |-> TRUE, buf |-> buf, json |-> [type |-> type, n |-> n]]

Ascii10 == Content(<<Run("a", 10)>>, "malformed", 0)
\* ten bytes, one of them no UTF-8 (a Latin-1 letter)
Latin1 == Content(<<Run("a", 5), Run("x", 1), Run("a", 4)>>, "malformed", 0)
\* a two-byte character lies across the byte offset PREVIEW_TEXT_BYTES
Straddle ==
  Content(<<Run("a", PREVIEW_TEXT_BYTES - 1), Run("m", 1), Run("a", 700000)>>,
          "malformed", 0)
BigArray == Content(<<Run("a", 700000)>>, "array", 50000)
BigObject == Content(<<Run("a", 650000)>>, "object", 20)
Empty == Content(<<>>, "malformed", 0)
Binary100K == Content(<<Run("x", 100000)>>, "malformed", 0)
\* more than SHARD_TARGET_BYTES
Text5M == Content(<<Run("a", 5 * 1024 * 1024)>>, "malformed", 0)
\* more than MAX_STRING_LENGTH, less than the 2 GiB a read returns
Text600M == Content(<<Run("a", 600000000)>>, "malformed", 0)

Contents ==
  {Ascii10, Latin1, Straddle, BigArray, BigObject, Empty, Binary100K, Text5M, Text600M}

Sizes ==
  {0, 10, INLINE_BIN_BYTES, INLINE_BIN_BYTES + 1, INLINE_TEXT_BYTES,
   INLINE_TEXT_BYTES + 1} \cup {ByteLen(c.buf) : c \in Contents}

Paths ==
  {<<"docs", "/", "guide", ".", "md">>,
   <<"Docs", "/", "README", ".", "MD">>,
   <<"docs", "/", "logo", ".", "png">>,
   <<"docs", "/", "ai-", "index", ".", "json">>,
   <<"data", "/", "breeds", ".", "json">>,
   <<"Data", "/", "breeds", ".", "YAML">>,
   <<"data", "/", "notes", ".", "md">>,
   <<"dog-gifts", ".", "json">>,
   <<"app", ".", "js">>,
   <<".", "github", "/", "workflows", "/", "ci", ".", "yml">>,
   <<"img", "/", "logo", ".", "png">>,
   <<"LICENSE">>,
   <<"json">>}

File(path, size, blob, tree) == [path |-> path, size |-> size, blob |-> blob, tree |-> tree]

----------------------------------------------------------------------------
(* SpecItem: the two loop bodies, each applied to one file *)

Idle ==
  /\ files = <<>> /\ pc = "item" /\ docs = <<>> /\ PACK_CATALOG = <<>>
  /\ subset = <<>> /\ pos = 0 /\ items = <<>> /\ bytes = 0 /\ shardIdx = 1
  /\ shards = <<>> /\ repo = <<>>

\* The listing and the reads of one file.  git show, when it succeeds,
\* returns the blob whose size git ls-tree listed; when it fails (no
\* repository, an output larger than the pipe's buffer, a path the shell
\* splits) the bytes are those of the working-tree file, whatever its size.
Worlds ==
  {File(path, ByteLen(blob.buf), blob, tree) :
     path \in Paths, blob \in Contents, tree \in Contents \cup {Throws}}
  \cup
  {File(path, size, Throws, tree) :
     path \in Paths, size \in Sizes, tree \in Contents \cup {Throws}}

InitItem ==
  /\ Idle
  /\ \E f \in Worlds : probe = <<f>>
  /\ packItem = <<>>
  /\ shardItem = <<>>

\* one pass of the loop of lines 203-248
PackBody ==
  /\ pc = "item" /\ packItem = <<>>
  /\ packItem' = <<packItemOf(probe[1])>>
  /\ UNCHANGED <<files, pc, docs, PACK_CATALOG, subset, pos, items, bytes,
                 shardIdx, shards, repo, probe, shardItem>>

\* one pass of the loop of lines 339-378, without the push and the flush
ShardBody ==
  /\ pc = "item" /\ shardItem = <<>>
  /\ shardItem' = <<shardItemOf(probe[1])>>
  /\ UNCHANGED <<files, pc, docs, PACK_CATALOG, subset, pos, items, bytes,
                 shardIdx, shards, repo, probe, packItem>>

NextItem == PackBody \/ ShardBody

SpecItem == InitItem /\ [][NextItem]_vars

----------------------------------------------------------------------------
(* The script, component by component *)

\* An artifact family written under docs/ (its .json, .min.json, .txt and
\* .html forms hold the same document and are one entry); idx numbers the
\* shards and is 0 elsewhere
Artifact(name, idx, count, body) == [name |-> name, idx |-> idx, count |-> count, items |-> body]

\* lines 109-111: the fields a list or the index keeps of a file record
Listed(list) == [i \in 1..Len(list) |-> [path |-> list[i].path, size |-> list[i].size]]

\* lines 89-100
WriteIndex ==
  /\ pc = "ai-index"
  /\ docs' = Append(docs, Artifact("ai-index", 0, Len(files), Listed(files)))
  /\ pc' = "ai-docs-list"
  /\ UNCHANGED <<files, PACK_CATALOG, subset, pos, items, bytes, shardIdx,
                 shards, repo, probe, packItem, shardItem>>

\* the predicates of lines 141 and 283, 146, 151 and 288, 293, 298
inDocsMd(f) == startsWith(f.path, <<"docs", "/">>) /\ testDotExt(f.path, {"md", "mdx"})
inDataMd(f) == startsWith(f.path, <<"data", "/">>) /\ testDotExt(f.path, {"md", "mdx"})
inDataConfig(f) ==
  /\ startsWith(toLowerCase(f.path), <<"data", "/">>)
  /\ testDotExt(f.path, {"json", "yaml", "yml"})
CORE_SET ==
  {<<"index", ".", "html">>, <<"app", ".", "js">>, <<"app-pdf", ".", "js">>,
   <<"app-curves-inline", ".", "js">>, <<"app-celebrate", ".", "js">>,
   <<"service-worker", ".", "js">>, <<"js", "/", "runtime-fetch", ".", "js">>,
   <<"dog-gifts", ".", "json">>, <<"dog-gifts", ".", "schema", ".", "json">>,
   <<"style", ".", "css">>, <<"manifest", ".", "json">>}
inCore(f) == f.path \in CORE_SET
inWorkflows(f) ==
  /\ startsWith(f.path, <<".", "github", "/", "workflows", "/">>)
  /\ testDotExt(f.path, {"yaml", "yml"})

\* the predicate each call of writeList (138-152) and writePack (280-299) passes
predicateOf(outBase, f) ==
  CASE outBase \in {"ai-docs-list", "ai-pack-docs"} -> inDocsMd(f)
    [] outBase = "ai-data-list" -> inDataMd(f)
    [] outBase \in {"ai-data-config-list", "ai-pack-data-config"} -> inDataConfig(f)
    [] outBase = "ai-pack-core" -> inCore(f)
    [] outBase = "ai-pack-ci" -> inWorkflows(f)

\* files.filter(predicate), lines 104 and 201
filtered(outBase) == SelectSeq(files, LAMBDA f : predicateOf(outBase, f))

\* writeList with a push to PACK_CATALOG, as writePack has
writeListCataloged(outBase, next) ==
  /\ pc = outBase
  /\ LET sub == filtered(outBase)
     IN  /\ docs' = Append(docs, Artifact(outBase, 0, Len(sub), Listed(sub)))
         /\ PACK_CATALOG' =
              Append(PACK_CATALOG,
                     [name |-> outBase, count |-> Len(sub), files |-> <<"json", "min.json", "html">>])
  /\ pc' = next
  /\ UNCHANGED <<files, subset, pos, items, bytes, shardIdx, shards, repo, probe,
                 packItem, shardItem>>

\* lines 103-136, called on lines 138-152
writeList(outBase, next) ==
  /\ pc = outBase
  /\ LET sub == filtered(outBase)
     IN  docs' = Append(docs, Artifact(outBase, 0, Len(sub), Listed(sub)))
  /\ pc' = next
  /\ UNCHANGED <<files, PACK_CATALOG, subset, pos, items, bytes, shardIdx,
                 shards, repo, probe, packItem, shardItem>>

WriteLists ==
  \/ writeList("ai-docs-list", "ai-data-list")
  \/ writeList("ai-data-list", "ai-data-config-list")
  \/ writeList("ai-data-config-list", "ai-pack-docs")

\* An entry of PACK_CATALOG; bytes_min, the length of the serialized
\* document, is left out
CatalogEntry(name, count, forms) == [name |-> name, count |-> count, files |-> forms]

\* lines 200-262, called on lines 280-299
writePack(outBase, next) ==
  /\ pc = outBase
  /\ LET sub == filtered(outBase)
         its == [i \in 1..Len(sub) |-> packItemOf(sub[i])]
     IN  /\ docs' = Append(docs, Artifact(outBase, 0, Len(its), its))
         /\ PACK_CATALOG' =
              Append(PACK_CATALOG,
                     CatalogEntry(outBase, Len(its), <<"json", "min.json", "txt">>))
  /\ pc' = next
  /\ UNCHANGED <<files, subset, pos, items, bytes, shardIdx, shards, repo, probe,
                 packItem, shardItem>>

WritePacks ==
  \/ writePack("ai-pack-docs", "ai-pack-data-config")
  \/ writePack("ai-pack-data-config", "ai-pack-core")
  \/ writePack("ai-pack-core", "ai-pack-ci")
  \/ writePack("ai-pack-ci", "ai-pack-everything")

SHARD_TARGET_BYTES == 4 * 1024 * 1024
SHARD_MAX_ITEMS == 500

\* shardFilter without the exclusion of the generated docs/ai- files
shardFilterKeepsGenerated(f) == ~startsWith(f.path, <<".", "git", "/">>)

\* lines 312-315
shardFilter(f) ==
  /\ ~startsWith(f.path, <<"docs", "/", "ai-">>)
  /\ ~startsWith(f.path, <<".", "git", "/">>)

\* lines 310-318: the filter and the locals
ShardBegin ==
  /\ pc = "ai-pack-everything"
  /\ subset' = SelectSeq(files, shardFilter)
  /\ pos' = 0 /\ items' = <<>> /\ bytes' = 0 /\ shardIdx' = 1 /\ shards' = <<>>
  /\ pc' = "shard-loop"
  /\ UNCHANGED <<files, docs, PACK_CATALOG, repo, probe, packItem, shardItem>>

\* flush without the reset of the bytes counter
flushKeepsBytes(st) ==
  IF st.items = <<>> THEN st
  ELSE [items |-> <<>>,
        bytes |-> st.bytes,
        shardIdx |-> st.shardIdx + 1,
        shards |-> Append(st.shards, [idx |-> st.shardIdx, count |-> Len(st.items)]),
        docs |-> Append(st.docs,
                        Artifact("ai-pack-everything", st.shardIdx, Len(st.items), st.items))]

\* lines 320-337: flush, on the locals st = [items, bytes, shardIdx, shards,
\* docs]; approx_bytes, the length of the serialized shard, is left out
flush(st) ==
  IF st.items = <<>> THEN st
  ELSE [items |-> <<>>,
        bytes |-> 0,
        shardIdx |-> st.shardIdx + 1,
        shards |-> Append(st.shards, [idx |-> st.shardIdx, count |-> Len(st.items)]),
        docs |-> Append(st.docs,
                        Artifact("ai-pack-everything", st.shardIdx, Len(st.items), st.items))]

\* thresholdReached with > for >= in the test of the item count
thresholdReachedLate(st) ==
  st.bytes >= SHARD_TARGET_BYTES \/ Len(st.items) > SHARD_MAX_ITEMS

\* line 380
thresholdReached(st) ==
  st.bytes >= SHARD_TARGET_BYTES \/ Len(st.items) >= SHARD_MAX_ITEMS

\* lines 339-381: one pass of the loop
ShardLoop ==
  /\ pc = "shard-loop"
  /\ pos < Len(subset)
  /\ LET f == subset[pos + 1]
         st == [items |-> Append(items, shardItemOf(f)),
                bytes |-> bytes + shardDecide(f).added,
                shardIdx |-> shardIdx, shards |-> shards, docs |-> docs]
         end == IF thresholdReached(st) THEN flush(st) ELSE st
     IN  /\ items' = end.items
         /\ bytes' = end.bytes
         /\ shardIdx' = end.shardIdx
         /\ shards' = end.shards
         /\ docs' = end.docs
  /\ pos' = pos + 1
  /\ UNCHANGED <<files, pc, PACK_CATALOG, subset, repo, probe, packItem,
                 shardItem>>

SumCount(list) ==
  LET F[i \in 0..Len(list)] == IF i = 0 THEN 0 ELSE F[i - 1] + list[i].count
  IN  F[Len(list)]

\* lines 382-417: the last flush, the manifest and the catalog entry
ShardEnd ==
  /\ pc = "shard-loop"
  /\ pos = Len(subset)
  /\ LET end == flush([items |-> items, bytes |-> bytes, shardIdx |-> shardIdx,
                       shards |-> shards, docs |-> docs])
     IN  /\ items' = end.items
         /\ bytes' = end.bytes
         /\ shardIdx' = end.shardIdx
         /\ shards' = end.shards
         /\ docs' = Append(end.docs,
                           Artifact("ai-pack-everything.manifest", 0,
                                    Len(end.shards), end.shards))
         /\ PACK_CATALOG' =
              Append(PACK_CATALOG,
                     CatalogEntry("ai-pack-everything (sharded)", SumCount(end.shards),
                                  <<"manifest.min.json", "html">>))
  /\ pc' = "ai-pack-all"
  /\ UNCHANGED <<files, subset, pos, repo, probe, packItem, shardItem>>

\* line 425: the pack read back from docs/<name>.min.json
readPack(name) ==
  LET at == {i \in 1..Len(docs) : docs[i].name = name}
  IN  docs[Max(at)]

\* lines 422-501
CombineAll ==
  /\ pc = "ai-pack-all"
  /\ LET names == <<"ai-pack-docs", "ai-pack-data-config", "ai-pack-core", "ai-pack-ci">>
         sections == [i \in 1..Len(names) |->
                        [name |-> names[i],
                         count |-> Len(readPack(names[i]).items),
                         items |-> readPack(names[i]).items]]
     IN  /\ docs' = Append(docs, Artifact("ai-pack-all", 0, Len(sections), sections))
         /\ PACK_CATALOG' =
              Append(PACK_CATALOG,
                     CatalogEntry("ai-pack-all (combined)", SumCount(sections),
                                  <<"min.json", "txt", "html">>))
  /\ pc' = "ai-pack-catalog"
  /\ UNCHANGED <<files, subset, pos, items, bytes, shardIdx, shards, repo, probe,
                 packItem, shardItem>>

\* lines 504-513
WriteCatalog ==
  /\ pc = "ai-pack-catalog"
  /\ docs' = Append(docs, Artifact("ai-pack-catalog", 0, Len(PACK_CATALOG), PACK_CATALOG))
  /\ pc' = "done"
  /\ UNCHANGED <<files, PACK_CATALOG, subset, pos, items, bytes, shardIdx,
                 shards, repo, probe, packItem, shardItem>>

----------------------------------------------------------------------------
(* The file lists of a run *)

MaxFiles == 3
MaxFullShards == 2

\* The paths of the short lists, in the order of git ls-tree
Tree ==
  <<<<".", "github", "/", "workflows", "/", "ci", ".", "yml">>,
    <<"app", ".", "js">>,
    <<"data", "/", "breeds", ".", "json">>,
    <<"docs", "/", "ai-", "index", ".", "json">>,
    <<"docs", "/", "guide", ".", "md">>,
    <<"dog-gifts", ".", "json">>,
    <<"img", "/", "logo", ".", "png">>>>

\* What a listed file may be: small and readable; unreadable; too large for
\* the pipe of git show and read from the working tree; too large for a string
Variants ==
  {[size |-> 10, blob |-> Ascii10, tree |-> Ascii10],
   [size |-> 10, blob |-> Throws, tree |-> Throws],
   [size |-> 5 * 1024 * 1024, blob |-> Throws, tree |-> Text5M],
   [size |-> 600000000, blob |-> Throws, tree |-> Text600M]}

\* The lists of at most MaxFiles files of Tree, in its order
ShortLists ==
  LET picks == {S \in SUBSET (1..Len(Tree)) : Cardinality(S) <= MaxFiles}
      Nth(S, j) == CHOOSE i \in S : Cardinality({k \in S : k < i}) = j - 1
  IN  UNION {
        {[j \in 1..Cardinality(S) |->
            File(Tree[Nth(S, j)], v[j].size, v[j].blob, v[j].tree)] :
          v \in [1..Cardinality(S) -> Variants]} : S \in picks}

\* n small readable text files
Filler(n) ==
  [i \in 1..n |-> File(<<"src", "/", ToString(i), ".", "txt">>, 10, Ascii10, Ascii10)]

\* Lists long enough to fill shards by count, alone or after a file that
\* fills one by bytes
LongLists ==
  {head \o Filler(j * SHARD_MAX_ITEMS + d) :
     head \in {<<>>, <<File(<<"docs", "/", "guide", ".", "md">>,
                            5 * 1024 * 1024, Throws, Text5M)>>},
     j \in 1..MaxFullShards, d \in {0, 1}}

Init ==
  /\ files \in ShortLists \cup LongLists
  /\ pc = "ai-index"
  /\ docs = <<>>
  /\ PACK_CATALOG = <<>>
  /\ subset = <<>> /\ pos = 0 /\ items = <<>> /\ bytes = 0 /\ shardIdx = 1
  /\ shards = <<>>
  /\ repo = <<>> /\ probe = <<>> /\ packItem = <<>> /\ shardItem = <<>>

Next ==
  \/ WriteIndex
  \/ WriteLists
  \/ WritePacks
  \/ ShardBegin
  \/ ShardLoop
  \/ ShardEnd
  \/ CombineAll
  \/ WriteCatalog

Spec == Init /\ [][Next]_vars

----------------------------------------------------------------------------
(* SpecWalk: gathering the file list (lines 45-87) *)

\* One line of `git ls-tree -r --long`: a blob with its size, or a submodule
\* commit, whose size column is "-" and which the pattern of line 50 rejects
Line(type, sha, size, path) == [type |-> type, sha |-> sha, size |-> size, path |-> path]

\* the record of lines 56 and 70-77, without the two URLs
Record(p, size, sha) ==
  [path |-> p, size |-> size, git_blob_sha |-> sha, media_type |-> mediaTypeFor(p)]

\* lines 45-59, from the lines safeExec returned ("" when git failed)
filesFromGitTree(lines) ==
  LET keep(l) == l.type = "blob" /\ ~startsWith(l.path, <<".", "git", "/">>)
      kept == SelectSeq(lines, keep)
  IN  [i \in 1..Len(kept) |-> Record(kept[i].path, kept[i].size, kept[i].sha)]

\* Entries of a directory, as readdirSync returns them with withFileTypes
FileEnt(name, size) == [name |-> name, dir |-> FALSE, size |-> size, ents |-> <<>>]
DirEnt(name, ents) == [name |-> name, dir |-> TRUE, size |-> 0, ents |-> ents]

\* line 65: path.join(dir, e.name); "." joined with a name is the name
join(dir, name) == IF dir = <<".">> THEN name ELSE dir \o <<"/">> \o name

\* The characters of a token that begins with "git"
BeginsWithGit(t) == t \in {"git", "github", "gitignore", "gitattributes", "gitmodules"}

\* line 66: p.startsWith(".git"), a test on characters
skipped(p) == Len(p) >= 2 /\ p[1] = "." /\ BeginsWithGit(p[2])

\* line 71: p.replace(/^[.][/\\]*/, "")
stripDot(p) ==
  LET F[i \in 1..(Len(p) + 1)] ==
        IF i <= Len(p) /\ p[i] = "/" THEN F[i + 1] ELSE i
  IN  IF p # <<>> /\ p[1] = "." THEN SubSeq(p, F[2], Len(p)) ELSE p

RECURSIVE walk(_, _)

\* lines 60-81, on the entries readdirSync(dir) returns
walk(dir, ents) ==
  IF ents = <<>> THEN <<>>
  ELSE LET e == Head(ents)
           p == join(dir, e.name)
           rest == walk(dir, Tail(ents))
       IN  IF skipped(p) THEN rest
           ELSE IF e.dir THEN walk(p, e.ents) \o rest
           ELSE <<Record(stripDot(p), e.size, "")>> \o rest

\* What the working directory may hold, in the order of readdirSync: the
\* repository's own .git, the workflows of .github, top-level dot-files, a
\* source file, a directory with a checkout of its own, an empty directory
Pool ==
  <<DirEnt(<<".", "git">>, <<FileEnt(<<"HEAD">>, 23), FileEnt(<<"config">>, 92)>>),
    DirEnt(<<".", "github">>,
           <<DirEnt(<<"workflows">>, <<FileEnt(<<"ci", ".", "yml">>, 310)>>)>>),
    FileEnt(<<".", "gitignore">>, 14),
    FileEnt(<<".", "nojekyll">>, 0),
    FileEnt(<<"app", ".", "js">>, 2048),
    DirEnt(<<"docs">>,
           <<DirEnt(<<".", "git">>, <<FileEnt(<<"HEAD">>, 41)>>),
             FileEnt(<<"guide", ".", "md">>, 700)>>),
    DirEnt(<<"vendor">>, <<>>)>>

\* The working directories: the entries of Pool that are there, in its order
Disks ==
  LET Nth(S, j) == CHOOSE i \in S : Cardinality({k \in S : k < i}) = j - 1
  IN  {[j \in 1..Cardinality(S) |-> Pool[Nth(S, j)]] : S \in SUBSET (1..Len(Pool))}

\* What git ls-tree prints: nothing (git failed, or an empty tree), a
\* submodule alone, or a tracked file
LsTrees ==
  {<<>>,
   <<Line("commit", "8c1f", -1, <<"vendor">>)>>,
   <<Line("blob", "e69d", 2048, <<"app", ".", "js">>),
     Line("commit", "8c1f", -1, <<"vendor">>)>>}

InitWalk ==
  /\ repo \in [lsTree : LsTrees, ents : Disks]
  /\ files = <<>> /\ pc = "files" /\ docs = <<>> /\ PACK_CATALOG = <<>>
  /\ subset = <<>> /\ pos = 0 /\ items = <<>> /\ bytes = 0 /\ shardIdx = 1
  /\ shards = <<>> /\ probe = <<>> /\ packItem = <<>> /\ shardItem = <<>>

\* lines 83-87
Gather ==
  /\ pc = "files"
  /\ LET listed == filesFromGitTree(repo.lsTree)
     IN  IF Len(listed) = 0
         THEN files' = walk(<<".">>, repo.ents) /\ pc' = "walked"
         ELSE files' = listed /\ pc' = "listed"
  /\ UNCHANGED <<docs, PACK_CATALOG, subset, pos, items, bytes, shardIdx,
                 shards, repo, probe, packItem, shardItem>>

NextWalk == Gather

SpecWalk == InitWalk /\ [][NextWalk]_vars

----------------------------------------------------------------------------
(* The shards of a run, read from the artifacts *)

\* The shard artifacts written so far, in the order they were written
ShardDocs == SelectSeq(docs, LAMBDA a : a.name = "ai-pack-everything")

\* The items of all shards, in shard order and then in-shard order
ShardItems ==
  LET sh == ShardDocs
      F[i \in 0..Len(sh)] == IF i = 0 THEN <<>> ELSE F[i - 1] \o sh[i].items
  IN  F[Len(sh)]

\* The files the sharded pack is about: the paths that start with neither
\* docs/ai- nor .git/
Packable(f) ==
  /\ ~(Len(f.path) >= 3 /\ f.path[1] = "docs" /\ f.path[2] = "/" /\ f.path[3] = "ai-")
  /\ ~(Len(f.path) >= 3 /\ f.path[1] = "." /\ f.path[2] = "git" /\ f.path[3] = "/")
PackableFiles == SelectSeq(files, Packable)

\* The length of the content embedded in an item
Embedded(item) == IF item.content = Undefined THEN 0 ELSE StrLen(item.content)

EmbeddedSum(list) ==
  LET F[i \in 0..Len(list)] == IF i = 0 THEN 0 ELSE F[i - 1] + Embedded(list[i])
  IN  F[Len(list)]

ShardsDone == pc \in {"ai-pack-all", "ai-pack-catalog", "done"}

ReachedThreshold(shard) ==
  \/ EmbeddedSum(shard.items) >= SHARD_TARGET_BYTES
  \/ Len(shard.items) >= SHARD_MAX_ITEMS

----------------------------------------------------------------------------
(* C1: once writeEverythingSharded has returned, the items of its shards,  *)
(* taken in shard order and then in-shard order, are the files of the      *)
(* input list whose path starts with neither docs/ai- nor .git/, each once *)
(* and in the order of the list; the shards are numbered 1, 2, ... in the  *)
(* order they were written.                                                *)
C1_ShardsReproduceFilteredList ==
  ShardsDone =>
    LET all == ShardItems
        sub == PackableFiles
    IN  /\ \A i \in 1..Len(ShardDocs) : ShardDocs[i].idx = i
        /\ Len(all) = Len(sub)
        /\ \A k \in 1..Len(all) :
             /\ all[k].path = sub[k].path
             /\ all[k].size = sub[k].size

\* a run that wrote two shards, from a list that holds a generated file and
\* a file that cannot be read
C1_Witness ==
  /\ pc = "done"
  /\ Len(ShardDocs) >= 2
  /\ Len(PackableFiles) < Len(files)
  /\ \E k \in 1..Len(PackableFiles) : ~gitShow(PackableFiles[k]).ok

(* C2: every shard but the last one written had reached a threshold when   *)
(* it was closed: the content embedded in its items is at least            *)
(* SHARD_TARGET_BYTES long or it holds at least SHARD_MAX_ITEMS items.     *)
(* While the loop runs every shard written so far has.  After the loop no  *)
(* item is left in progress: a last shard under both thresholds was        *)
(* written.                                                                *)
C2_OnlyLastShardPartial ==
  /\ \A i \in 1..Len(ShardDocs) :
       (i < Len(ShardDocs) \/ pc = "shard-loop") => ReachedThreshold(ShardDocs[i])
  /\ ShardsDone =>
       /\ items = <<>>
       /\ SumCount(ShardDocs) = Len(PackableFiles)

\* a run whose first shard was closed by its bytes, whose second by its
\* item count, and whose last is under both thresholds
C2_Witness ==
  /\ pc = "done"
  /\ Len(ShardDocs) = 3
  /\ Len(ShardDocs[1].items) < SHARD_MAX_ITEMS
  /\ EmbeddedSum(ShardDocs[2].items) < SHARD_TARGET_BYTES
  /\ ~ReachedThreshold(ShardDocs[3])

(* C3: no shard holds more than SHARD_MAX_ITEMS items, and the shard in    *)
(* progress never does.                                                    *)
C3_ItemCap ==
  /\ Len(items) <= SHARD_MAX_ITEMS
  /\ \A i \in 1..Len(ShardDocs) :
       /\ Len(ShardDocs[i].items) <= SHARD_MAX_ITEMS
       /\ ShardDocs[i].count = Len(ShardDocs[i].items)

\* a shard that holds exactly SHARD_MAX_ITEMS items, followed by another
C3_Witness ==
  /\ Len(ShardDocs) >= 2
  /\ Len(ShardDocs[1].items) = SHARD_MAX_ITEMS

----------------------------------------------------------------------------
(* The items of a run *)

PackNames == {"ai-pack-docs", "ai-pack-data-config", "ai-pack-core", "ai-pack-ci"}

\* The pack artifacts written so far
PackDocs == SelectSeq(docs, LAMBDA a : a.name \in PackNames)

\* Every item built so far: those of the packs and the shards written, those
\* of the shard in progress and, under SpecItem, those of the two loop bodies
EmittedItems ==
  LET pk == PackDocs
      F[i \in 0..Len(pk)] == IF i = 0 THEN <<>> ELSE F[i - 1] \o pk[i].items
  IN  F[Len(pk)] \o ShardItems \o items \o packItem \o shardItem

\* The file an item was built from (paths are unique in a list)
FileOf(item) ==
  LET all == files \o probe
  IN  all[CHOOSE k \in 1..Len(all) : all[k].path = item.path]

HasContent(item) == item.content # Undefined
HasEncoding(item) == item.encoding # "undefined"
HasHash(item) == item.content_sha256 # Undefined
HasJsonHint(item) == item.json_hint.type \notin {"absent", "undefined"}

(* C4: an item written by writePack or by writeEverythingSharded has the   *)
(* fields content, encoding and content_sha256 if and only if its          *)
(* inline_state is not "none".                                             *)
C4_FieldsIffInlined ==
  \A k \in 1..Len(EmittedItems) :
    LET item == EmittedItems[k]
    IN  /\ item.inline_state = "none" =>
             ~HasContent(item) /\ ~HasEncoding(item) /\ ~HasHash(item)
        /\ item.inline_state # "none" =>
             HasContent(item) /\ HasEncoding(item) /\ HasHash(item)

----------------------------------------------------------------------------
(* Text, as a sequence of runs of characters *)

\* s is a prefix of t
IsPrefix(s, t) ==
  \/ s = <<>>
  \/ /\ Len(s) <= Len(t)
     /\ \A j \in 1..(Len(s) - 1) : s[j] = t[j]
     /\ s[Len(s)].k = t[Len(s)].k
     /\ s[Len(s)].n <= t[Len(s)].n

\* s without its last character
DropLast(s) ==
  IF s[Len(s)].n = 1 THEN SubSeq(s, 1, Len(s) - 1)
  ELSE [s EXCEPT ![Len(s)].n = @ - 1]

\* The number of bytes the characters of s were decoded from
SourceBytes(s) ==
  LET F[i \in 0..Len(s)] ==
        IF i = 0 THEN 0
        ELSE F[i - 1] + (IF s[i].k = "e" THEN 2 * s[i].n ELSE s[i].n)
  IN  F[Len(s)]

\* The text of a file: its bytes, decoded
TextOf(f) == utf8Decode(gitShow(f).buf)

\* The items the two loop bodies built, under SpecItem
Built == packItem \o shardItem

(* C5, as claimed: a "preview" item carries the hash of the complete       *)
(* content read, and its content is a prefix of the file's text, at most   *)
(* PREVIEW_TEXT_BYTES long.                                                *)
C5_PreviewIsPrefix ==
  \A k \in 1..Len(Built) :
    LET item == Built[k]
        f == probe[1]
    IN  item.inline_state = "preview" =>
          /\ item.content_sha256 = sha256(gitShow(f).buf)
          /\ item.content.kind = "text"
          /\ IsPrefix(item.content.of, TextOf(f))
          /\ StrLen(item.content) <= PREVIEW_TEXT_BYTES

(* C5, amended: a "preview" item carries the hash of the complete content  *)
(* read; its content is the text of the first PREVIEW_TEXT_BYTES bytes of  *)
(* the file (of all of them when there are fewer), at most                 *)
(* PREVIEW_TEXT_BYTES characters: a prefix of the file's text, except that *)
(* a character the limit cuts in two is one U+FFFD at its end.             *)
C5_PreviewIsDecodedBytePrefix ==
  \A k \in 1..Len(Built) :
    LET item == Built[k]
        f == probe[1]
        c == item.content.of
    IN  item.inline_state = "preview" =>
          /\ item.content_sha256 = sha256(gitShow(f).buf)
          /\ item.content.kind = "text"
          /\ StrLen(item.content) <= PREVIEW_TEXT_BYTES
          /\ SourceBytes(c) = Min(ByteLen(gitShow(f).buf), PREVIEW_TEXT_BYTES)
          /\ \/ IsPrefix(c, TextOf(f))
             \/ /\ c # <<>>
                /\ c[Len(c)].k = "r"
                /\ IsPrefix(DropLast(c), TextOf(f))
                /\ SourceBytes(c) = PREVIEW_TEXT_BYTES

\* both bodies built a preview of a file in which a two-byte character lies
\* across the limit
C5_Witness ==
  /\ Len(Built) = 2
  /\ \A k \in 1..2 :
       /\ Built[k].inline_state = "preview"
       /\ ~IsPrefix(Built[k].content.of, TextOf(probe[1]))
       /\ Built[k].content_sha256 # sha256(slice(gitShow(probe[1]).buf, PREVIEW_TEXT_BYTES))

----------------------------------------------------------------------------
\* The extension of a path: what follows its last ".", in lower case (the
\* whole path when it holds no ".")
Extension(p) ==
  LET d == {i \in 1..Len(p) : p[i] = "."}
      last == IF d = {} THEN p ELSE SubSeq(p, Max(d) + 1, Len(p))
  IN  [i \in 1..Len(last) |-> Lower(last[i])]

RecognizedText(p) ==
  \E e \in {"md", "mdx", "json", "js", "mjs", "css", "html", "yml", "yaml", "txt", "svg"} :
    Extension(p) = <<e>>

\* On the always-full allowlist: one of the two exact paths, or under docs/
\* (in any letter case)
OnAllowlist(p) ==
  \/ p = <<"dog-gifts", ".", "json">>
  \/ p = <<"dog-gifts", ".", "schema", ".", "json">>
  \/ (Len(p) >= 2 /\ Lower(p[1]) = "docs" /\ p[2] = "/")

(* C6: when the content of a file can be read, writePack gives it the      *)
(* inline_state of this table: extension not recognized as text: "full"    *)
(* iff size <= INLINE_BIN_BYTES, else "none"; extension recognized: "full" *)
(* if the path is on the allowlist or size <= INLINE_TEXT_BYTES, else      *)
(* "preview" if PREVIEW_TEXT_BYTES > 0, else "none".                       *)
C6_PackPrecedence ==
  (packItem # <<>> /\ gitShow(probe[1]).ok) =>
    LET f == probe[1]
        state == packItem[1].inline_state
    IN  IF ~RecognizedText(f.path)
        THEN /\ state = (IF f.size <= INLINE_BIN_BYTES THEN "full" ELSE "none")
             /\ state # "preview"
        ELSE IF OnAllowlist(f.path) \/ f.size <= INLINE_TEXT_BYTES
        THEN state = "full"
        ELSE IF PREVIEW_TEXT_BYTES > 0 THEN state = "preview"
        ELSE state = "none"

\* a readable file on the allowlist that is no text and lies above the
\* binary cap: its item is "none"
C6_Witness ==
  /\ packItem # <<>>
  /\ gitShow(probe[1]).ok
  /\ OnAllowlist(probe[1].path)
  /\ ~RecognizedText(probe[1].path)
  /\ probe[1].size > INLINE_BIN_BYTES
  /\ packItem[1].inline_state = "none"

----------------------------------------------------------------------------
\* The catalog name of the artifact family an artifact completes, "" for an
\* artifact that completes none (a shard, the catalog itself)
FamilyOf(a) ==
  CASE a.name = "ai-pack-everything.manifest" -> "ai-pack-everything (sharded)"
    [] a.name = "ai-pack-all" -> "ai-pack-all (combined)"
    [] a.name \in {"ai-pack-everything", "ai-pack-catalog"} -> ""
    [] OTHER -> a.name

\* The families produced so far, in the order their components completed
FamiliesProduced ==
  LET done == SelectSeq(docs, LAMBDA a : FamilyOf(a) # "")
  IN  [i \in 1..Len(done) |-> FamilyOf(done[i])]

CatalogNames == [i \in 1..Len(PACK_CATALOG) |-> PACK_CATALOG[i].name]

\* The catalog document, once written
CatalogDoc == SelectSeq(docs, LAMBDA a : a.name = "ai-pack-catalog")

IsPackFamily(name) ==
  name \in PackNames \cup {"ai-pack-everything (sharded)", "ai-pack-all (combined)"}

(* C7, as claimed: when the run completes, the catalog document holds one  *)
(* entry for every artifact family produced (the master index, each named  *)
(* list, each named pack, the sharded pack, the combined pack), in the     *)
(* order in which the components ran.                                      *)
C7_CatalogHoldsEveryFamily ==
  pc = "done" =>
    /\ Len(CatalogDoc) = 1
    /\ [i \in 1..Len(CatalogDoc[1].items) |-> CatalogDoc[1].items[i].name]
         = FamiliesProduced

(* C7, amended: the catalog holds one entry for every pack family (each    *)
(* named inline pack, the sharded pack, the combined pack) and none for    *)
(* the master index or the named lists.  An entry is appended when its     *)
(* component completes: at every point of the run the entries are the pack *)
(* families completed so far, in the order the components ran, and the     *)
(* catalog document written last holds the six of them.                    *)
C7_CatalogHoldsPackFamilies ==
  /\ CatalogNames = SelectSeq(FamiliesProduced, IsPackFamily)
  /\ pc = "done" =>
       /\ Len(CatalogDoc) = 1
       /\ CatalogDoc[1].items = PACK_CATALOG
       /\ CatalogNames =
            <<"ai-pack-docs", "ai-pack-data-config", "ai-pack-core", "ai-pack-ci",
              "ai-pack-everything (sharded)", "ai-pack-all (combined)">>
       /\ \A i \in 1..Len(PackDocs) : PACK_CATALOG[i].count = PackDocs[i].count
       /\ PACK_CATALOG[5].count = Len(ShardItems)

\* a completed run that wrote the index and the three lists, none of them
\* empty, and whose catalog names none of them
C7_Witness ==
  /\ pc = "done"
  /\ \A n \in {"ai-index", "ai-docs-list", "ai-data-config-list"} :
       /\ \E i \in 1..Len(docs) : docs[i].name = n /\ docs[i].count > 0
       /\ \A i \in 1..Len(PACK_CATALOG) : PACK_CATALOG[i].name # n
  /\ Len(PACK_CATALOG) = 6

----------------------------------------------------------------------------
\* The three size thresholds
BelowAllThresholds(f) ==
  /\ f.size <= INLINE_TEXT_BYTES
  /\ f.size <= INLINE_BIN_BYTES
  /\ f.size <= PREVIEW_TEXT_BYTES

\* Every byte of the text's source was a character's: none was replaced
Lossless(text) == \A j \in 1..Len(text) : text[j].k # "r"

(* C8, as claimed: a readable file with a recognized text extension and a  *)
(* size below all thresholds gives an item with inline_state "full",       *)
(* encoding "text", the literal content of the file and the hash of that   *)
(* content; every item that is not "none" has encoding "text" or "base64". *)
C8_SmallTextIsLiteral ==
  \A k \in 1..Len(Built) :
    LET item == Built[k]
        f == probe[1]
    IN  /\ (RecognizedText(f.path) /\ BelowAllThresholds(f) /\ gitShow(f).ok) =>
             /\ item.inline_state = "full"
             /\ item.encoding = "text"
             /\ item.content = [kind |-> "text", of |-> TextOf(f)]
             /\ Lossless(item.content.of)
             /\ item.content_sha256 = sha256(gitShow(f).buf)
        /\ item.inline_state # "none" => item.encoding \in {"text", "base64"}

(* C8, amended: such a file gives an item with inline_state "full" and     *)
(* encoding "utf8"; its content is the UTF-8 decoding of the bytes read    *)
(* (the literal content when they are valid UTF-8, U+FFFD for each byte    *)
(* that is not) and its content_sha256 the hash of those bytes, unless the *)
(* decoded string would exceed the runtime's limit, when the item has      *)
(* neither.  Every item that is not "none" has encoding "utf8" or          *)
(* "base64".                                                               *)
C8_SmallTextIsDecoded ==
  \A k \in 1..Len(Built) :
    LET item == Built[k]
        f == probe[1]
    IN  /\ (RecognizedText(f.path) /\ BelowAllThresholds(f) /\ gitShow(f).ok) =>
             /\ item.inline_state = "full"
             /\ item.encoding = "utf8"
             /\ IF CharLen(TextOf(f)) <= MAX_STRING_LENGTH
                THEN /\ item.content = [kind |-> "text", of |-> TextOf(f)]
                     /\ item.content_sha256 = sha256(gitShow(f).buf)
                     /\ item.inline_bytes = CharLen(TextOf(f))
                ELSE ~HasContent(item) /\ ~HasHash(item)
        /\ item.inline_state # "none" => item.encoding \in {"utf8", "base64"}

\* both bodies built the item of a small readable text file one byte of
\* which is no UTF-8
C8_Witness ==
  /\ Len(Built) = 2
  /\ RecognizedText(probe[1].path)
  /\ BelowAllThresholds(probe[1])
  /\ gitShow(probe[1]).ok
  /\ ~Lossless(TextOf(probe[1]))
  /\ \A k \in 1..2 : Built[k].inline_state = "full" /\ Built[k].encoding = "utf8"

----------------------------------------------------------------------------
----------------------------------------------------------------------------
\* An item that holds the path and the size of f and nothing of its content
IsMetadataOnly(item, f) ==
  /\ item.path = f.path
  /\ item.size = f.size
  /\ item.inline_state = "none"
  /\ ~HasContent(item) /\ ~HasEncoding(item) /\ ~HasHash(item)
  /\ ~HasJsonHint(item)
  /\ item.inline_bytes = -1

Unreadable(f) == ~f.blob.ok /\ ~f.tree.ok

\* The files a pack is about
PackFiles(name) ==
  SelectSeq(files, LAMBDA f :
    CASE name = "ai-pack-docs" ->
           /\ Len(f.path) >= 4 /\ f.path[1] = "docs" /\ f.path[2] = "/"
           /\ f.path[Len(f.path) - 1] = "." /\ Lower(f.path[Len(f.path)]) \in {"md", "mdx"}
      [] name = "ai-pack-data-config" ->
           /\ Len(f.path) >= 4 /\ Lower(f.path[1]) = "data" /\ f.path[2] = "/"
           /\ f.path[Len(f.path) - 1] = "."
           /\ Lower(f.path[Len(f.path)]) \in {"json", "yaml", "yml"}
      [] name = "ai-pack-core" -> f.path \in CORE_SET
      [] name = "ai-pack-ci" ->
           /\ Len(f.path) >= 7
           /\ SubSeq(f.path, 1, 5) = <<".", "github", "/", "workflows", "/">>
           /\ f.path[Len(f.path) - 1] = "." /\ Lower(f.path[Len(f.path)]) \in {"yaml", "yml"})

ArtifactNames == {docs[i].name : i \in 1..Len(docs)}

(* C10: a file neither read of which succeeds is still an item, with       *)
(* inline_state "none" and nothing but its metadata, in every pack it      *)
(* belongs to and in its shard; it adds nothing to the shard's bytes       *)
(* counter, which is the length of the content embedded in the items in    *)
(* progress; every other file of a pack or of the shard run has its item;  *)
(* and the run ends with every artifact written.                           *)
C10_ReadFailureIsMetadataOnly ==
  /\ \A i \in 1..Len(PackDocs) :
       LET sub == PackFiles(PackDocs[i].name)
       IN  /\ Len(PackDocs[i].items) = Len(sub)
           /\ \A k \in 1..Len(sub) :
                /\ PackDocs[i].items[k].path = sub[k].path
                /\ Unreadable(sub[k]) => IsMetadataOnly(PackDocs[i].items[k], sub[k])
  /\ LET all == ShardItems \o items
         sub == PackableFiles
     IN  /\ pc = "shard-loop" => Len(all) = pos
         /\ ShardsDone => Len(all) = Len(sub)
         /\ \A k \in 1..Len(all) :
              /\ all[k].path = sub[k].path
              /\ Unreadable(sub[k]) =>
                   /\ IsMetadataOnly(all[k], sub[k])
                   /\ Embedded(all[k]) = 0
  /\ bytes = EmbeddedSum(items)
  /\ pc = "done" =>
       {"ai-index", "ai-docs-list", "ai-data-list", "ai-data-config-list",
        "ai-pack-everything.manifest", "ai-pack-all", "ai-pack-catalog"}
         \cup PackNames \subseteq ArtifactNames

\* a completed run in which a pack and a shard hold the item of an
\* unreadable file before the item, with content, of a readable one
C10_Witness ==
  /\ pc = "done"
  /\ \E i \in 1..Len(PackDocs) :
       /\ PackDocs[i].count >= 2
       /\ Unreadable(FileOf(PackDocs[i].items[1]))
       /\ HasContent(PackDocs[i].items[2])
  /\ \E i \in 1..Len(ShardDocs) :
       /\ ShardDocs[i].count >= 2
       /\ Unreadable(FileOf(ShardDocs[i].items[1]))
       /\ HasContent(ShardDocs[i].items[2])

----------------------------------------------------------------------------
(* C11: the fallback walk *)

RECURSIVE RegularFiles(_, _)

\* The regular files below a directory, each with its path from the working
\* directory and its size
RegularFiles(prefix, ents) ==
  IF ents = <<>> THEN {}
  ELSE LET e == Head(ents)
           q == prefix \o e.name
       IN  (IF e.dir THEN RegularFiles(q \o <<"/">>, e.ents)
            ELSE {[path |-> q, size |-> e.size]})
           \cup RegularFiles(prefix, Tail(ents))

\* a path inside the top-level directory .git
InsideGit(q) == Len(q) >= 3 /\ q[1] = "." /\ q[2] = "git" /\ q[3] = "/"

Listings(q) == {i \in DOMAIN files : files[i].path = q}

(***************************************************************************)
(* C11: when git lists no files, the walk lists every regular file of the  *)
(* working directory outside the top-level .git exactly once, lists no     *)
(* file inside it, and every record has an empty git_blob_sha and the path *)
(* and size of a file of the working directory.                            *)
(***************************************************************************)
C11_WalkExcludesGitOnly ==
  pc = "walked" =>
    LET on == RegularFiles(<<>>, repo.ents)
    IN  /\ \A q \in on : ~InsideGit(q.path) => Cardinality(Listings(q.path)) = 1
        /\ \A i \in DOMAIN files : ~InsideGit(files[i].path)
        /\ \A i \in DOMAIN files :
             /\ files[i].git_blob_sha = ""
             /\ \E q \in on : q.path = files[i].path /\ q.size = files[i].size

====
